---- MODULE Spec2Model ----
(***************************************************************************)
(* The checkpoint queue of src/bitcoin/checkpoint.rs: a deque of           *)
(* checkpoints (Building -> Signing -> Complete), the scheduler tick       *)
(* maybe_step, the deposit / withdrawal pushes on the Building checkpoint  *)
(* and the signer call sign.                                               *)
(*                                                                         *)
(* The queue is a sequence, oldest checkpoint first (push_back appends).   *)
(* Every handler is one action.  A handler that returns Err keeps the      *)
(* writes it made before the return (the file has no rollback); a handler  *)
(* that panics aborts the process: the model then stops in a state whose   *)
(* result is "Panic" and whose queue is the last one a caller saw.         *)
(***************************************************************************)
EXTENDS Integers, Sequences, FiniteSets, TLC

\* ------------------------------------------------------------------ bounds
MaxIndex == 2          \* maybe_push stops creating checkpoints past this index
MaxFlows == 2          \* deposits and withdrawals pushed over a run
MaxNow == 1200         \* the wall clock stops here
MaxSigs == 2           \* longest signature batch a signer submits

\* --------------------------------------------------------------- constants
CHECKPOINT_INTERVAL == 600
MAX_INPUTS == 50
MAX_OUTPUTS == 200
FEE_RATE == 1
TimeStep == CHECKPOINT_INTERVAL
U64 == 2 ^ 16          \* amounts are u64; the width is scaled down to 16 bits

Signers == {"K1", "K2"}
NULL_ADDRESS == "NULL"
Dests == {"D"}
DepositOutpoints == {[txid |-> "dep", vout |-> 0]}
DepositAmounts == {20}
WithdrawalValues == {5}
BadSig == [key |-> <<"none", 0>>, msg |-> "corrupt"]

VARIABLES queue, index, now, overflow_checks, last

vars == <<queue, index, now, overflow_checks, last>>

\* ------------------------------------------------------- signatory sets
\* A validator context: the validators with their voting power, and those
\* of them that registered a signatory key.
ValidatorCtxs ==
    {[vals |-> {}, vp |-> [x \in Signers |-> 0], keys |-> {}],
     [vals |-> {"K1"}, vp |-> [x \in Signers |-> 1], keys |-> {"K1"}],
     [vals |-> {"K1", "K2"}, vp |-> [x \in Signers |-> 1], keys |-> {"K1"}],
     [vals |-> {"K1", "K2"}, vp |-> [x \in Signers |-> IF x = "K1" THEN 3 ELSE 1],
      keys |-> {"K1", "K2"}]}

\* the voting power of a set of validators or keys under a power function
RECURSIVE SumVp(_, _)
SumVp(vp, S) ==
    IF S = {} THEN 0
    ELSE LET x == CHOOSE y \in S : TRUE IN vp[x] + SumVp(vp, S \ {x})

derive_pub(xpub, sigset_index) == <<xpub, sigset_index>>

from_validator_ctx(idx, sig_keys) ==
    [index |-> idx,
     create_time |-> now,
     signatories |-> {derive_pub(x, idx) : x \in sig_keys.keys \cap sig_keys.vals},
     vp |-> [k \in {derive_pub(x, idx) : x \in sig_keys.keys \cap sig_keys.vals}
                |-> sig_keys.vp[k[1]]],
     present_vp |-> SumVp(sig_keys.vp, sig_keys.keys \cap sig_keys.vals),
     possible_vp |-> SumVp(sig_keys.vp, sig_keys.vals)]

DefaultSigset ==
    [index |-> 0, create_time |-> 0, signatories |-> {}, vp |-> <<>>,
     present_vp |-> 0, possible_vp |-> 0]

possible_vp(sigset) == sigset.possible_vp

has_quorum(sigset) == sigset.present_vp * 3 > sigset.possible_vp * 2

create_time(cp) == cp.sigset.create_time

output_script(sigset, dest) == <<"p2wsh", sigset.index, sigset.signatories, dest>>

redeem_script(sigset, dest) == <<"redeem", sigset.index, sigset.signatories, dest>>

\* ------------------------------------------ threshold-signature collector
DefaultThresholdSig == [sigset |-> DefaultSigset, message |-> "unset", signed |-> {}]

from_sigset(sigset) == [sigset |-> sigset, message |-> "unset", signed |-> {}]

set_message(sigs, msg) == [sigs EXCEPT !.message = msg]

contains_key(sigs, pubkey) == pubkey \in sigs.sigset.signatories

needs_sig(sigs, pubkey) == contains_key(sigs, pubkey) /\ pubkey \notin sigs.signed

QuorumThreshold(sigset) == (2 * sigset.present_vp) \div 3 + 1

\* the voting power of the signers that have signed so far
signed_vp(sigs) == SumVp(sigs.sigset.vp, sigs.signed)

sigs_done(sigs) == signed_vp(sigs) >= QuorumThreshold(sigs.sigset)

Signature(pubkey, msg) == [key |-> pubkey, msg |-> msg]

verify(sigs, pubkey, sig) == sig.key = pubkey /\ sig.msg = sigs.message

\* ThresholdSig::sign: the error it fails with, or "Ok"
sigs_sign_result(sigs, pubkey, sig) ==
    IF ~contains_key(sigs, pubkey) THEN "InvalidSignature"
    ELSE IF pubkey \in sigs.signed THEN "AlreadySigned"
    ELSE IF ~verify(sigs, pubkey, sig) THEN "InvalidSignature"
    ELSE "Ok"

sigs_sign(sigs, pubkey) == [sigs EXCEPT !.signed = @ \cup {pubkey}]

to_witness(sigs) == sigs.signed

sigs_est_vsize(sigs) == Cardinality(sigs.sigset.signatories)

\* ------------------------------------------------- inputs and transactions
to_txin(input) ==
    [previous_output |-> input.prevout,
     sequence |-> "MAX",
     witness |-> IF sigs_done(input.sigs)
                 THEN <<to_witness(input.sigs), input.redeem_script>>
                 ELSE <<to_witness(input.sigs)>>]

get_size(t) == 1 + Len(t.input) + Len(t.output)

RECURSIVE SumVsize(_, _)
SumVsize(inputs, n) ==
    IF n = 0 THEN 0 ELSE SumVsize(inputs, n - 1) + sigs_est_vsize(inputs[n].sigs)

\* Checkpoint::tx: the transaction and its estimated vsize
tx(cp) ==
    LET t == [input |-> [i \in 1..Len(cp.inputs) |-> to_txin(cp.inputs[i])],
              output |-> cp.outputs]
    IN [tx |-> t, est_vsize |-> SumVsize(cp.inputs, Len(cp.inputs)) + get_size(t)]

\* a txid that also hashes the witnesses (the wtxid)
txid_with_witness(t) == t

\* Transaction::txid hashes the transaction without its witnesses
txid(t) ==
    [input |-> [i \in 1..Len(t.input) |->
                   [previous_output |-> t.input[i].previous_output,
                    sequence |-> t.input[i].sequence]],
     output |-> t.output]

\* BIP-143 signature hash of input i (counted from 0) under SIGHASH_ALL
signature_hash(t, i, script, amount) == <<txid(t), i, script, amount>>

\* ------------------------------------------------------------ checkpoints
DefaultCheckpoint ==
    [status |-> "Building", inputs |-> <<>>, signed_inputs |-> 0,
     outputs |-> <<>>, sigset |-> DefaultSigset]

\* a push_input that leaves the collector at its default
push_input_default_sigs(cp, prevout, sigset, dest, amount) ==
    [cp EXCEPT !.inputs = Append(@,
        [prevout |-> prevout,
         script_pubkey |-> output_script(sigset, dest),
         redeem_script |-> redeem_script(sigset, dest),
         sigset_index |-> sigset.index,
         dest |-> dest,
         amount |-> amount,
         sigs |-> DefaultThresholdSig])]

\* BuildingCheckpointMut::push_input
push_input(cp, prevout, sigset, dest, amount) ==
    [cp EXCEPT !.inputs = Append(@,
        [prevout |-> prevout,
         script_pubkey |-> output_script(sigset, dest),
         redeem_script |-> redeem_script(sigset, dest),
         sigset_index |-> sigset.index,
         dest |-> dest,
         amount |-> amount,
         sigs |-> from_sigset(sigset)])]

\* Appending a withdrawal to the Building checkpoint's outputs deque
push_output(cp, txout) == [cp EXCEPT !.outputs = Append(@, txout)]

RECURSIVE SumAmounts(_, _)
SumAmounts(inputs, n) ==
    IF n = 0 THEN 0 ELSE SumAmounts(inputs, n - 1) + inputs[n].amount

\* the sum of the values of outputs lo..hi, halving the range so that the
\* evaluation of MAX_OUTPUTS outputs stays shallow
RECURSIVE SumValuesIn(_, _, _)
SumValuesIn(outputs, lo, hi) ==
    IF lo > hi THEN 0
    ELSE IF lo = hi THEN outputs[lo].value
    ELSE SumValuesIn(outputs, lo, (lo + hi) \div 2)
         + SumValuesIn(outputs, (lo + hi) \div 2 + 1, hi)

SumValues(outputs, n) == SumValuesIn(outputs, 1, n)

\* u64 arithmetic: the exact result wraps modulo the word size
Wrap(x) == x % U64

\* BuildingCheckpointMut::advance: the Signing checkpoint, and whether the
\* call panicked (todo!(), or an arithmetic overflow when the build checks
\* overflow; a build that does not check it wraps).
advance(cp, checks) ==
    LET reserve_out == [value |-> 0,
                        script_pubkey |-> output_script(cp.sigset, NULL_ADDRESS)]
        c1 == [cp EXCEPT !.status = "Signing", !.outputs = <<reserve_out>> \o @]
        todo == Len(c1.inputs) > MAX_INPUTS \/ Len(c1.outputs) > MAX_OUTPUTS
        in_exact == SumAmounts(c1.inputs, Len(c1.inputs))
        out_exact == SumValues(c1.outputs, Len(c1.outputs))
        in_amount == Wrap(in_exact)
        out_amount == Wrap(out_exact)
        t == tx(c1)
        fee_exact == t.est_vsize * FEE_RATE
        fee == Wrap(fee_exact)
        overflow == \/ in_exact >= U64
                    \/ out_exact >= U64
                    \/ fee_exact >= U64
                    \/ in_amount - out_amount < 0
                    \/ Wrap(in_amount - out_amount) - fee < 0
        reserve_value == Wrap(Wrap(in_amount - out_amount) - fee)
        c2 == [c1 EXCEPT !.outputs[1].value = reserve_value]
        tx2 == [t.tx EXCEPT !.output[1].value = reserve_value]
        c3 == [c2 EXCEPT !.inputs = [i \in 1..Len(c2.inputs) |->
                 [c2.inputs[i] EXCEPT !.sigs = set_message(@,
                     signature_hash(tx2, i - 1, c2.inputs[i].redeem_script,
                                    c2.inputs[i].amount))]]]
    IN [panic |-> todo \/ (checks /\ overflow), cp |-> c3]

\* SigningCheckpointMut::done
done(cp) == cp.signed_inputs = Len(cp.inputs)

\* an advance that writes the wrong status
signing_advance_back(cp) == [cp EXCEPT !.status = "Building"]

\* an advance that also empties the outputs of the completed checkpoint
signing_advance_drops_outputs(cp) ==
    [cp EXCEPT !.status = "Complete", !.outputs = <<>>]

\* SigningCheckpointMut::advance
signing_advance(cp) == [cp EXCEPT !.status = "Complete"]

\* a sign loop that counts every accepted signature as a signed input
RECURSIVE sign_loop_counts_every_signature(_, _, _, _, _)
sign_loop_counts_every_signature(cp, xpub, sigs, i, sig_index) ==
    IF i > Len(cp.inputs)
    THEN [cp |-> cp,
          result |-> IF sig_index # Len(sigs) THEN "ExcessSignatures" ELSE "Ok"]
    ELSE LET input == cp.inputs[i]
             pubkey == derive_pub(xpub, input.sigset_index)
         IN IF ~contains_key(input.sigs, pubkey)
            THEN sign_loop_counts_every_signature(cp, xpub, sigs, i + 1, sig_index)
            ELSE IF sigs_done(input.sigs)
            THEN sign_loop_counts_every_signature(cp, xpub, sigs, i + 1, sig_index + 1)
            ELSE IF sig_index > Len(sigs)
            THEN [cp |-> cp, result |-> "NotEnoughSignatures"]
            ELSE IF sig_index >= Len(sigs)
            THEN [cp |-> cp, result |-> "Panic"]
            ELSE LET sig == sigs[sig_index + 1]
                     r == sigs_sign_result(input.sigs, pubkey, sig)
                     cp2 == [cp EXCEPT
                               !.inputs[i].sigs = sigs_sign(input.sigs, pubkey),
                               !.signed_inputs = @ + 1]
                 IN IF r # "Ok"
                    THEN [cp |-> cp, result |-> r]
                    ELSE sign_loop_counts_every_signature(cp2, xpub, sigs, i + 1,
                                                          sig_index + 1)

\* SigningCheckpointMut::sign from input i (counted from 1) on, with
\* sig_index signatures consumed: the checkpoint as the call leaves it and
\* the call's result.  sigs[sig_index] indexes a vector: past its end the
\* call panics.
RECURSIVE sign_loop(_, _, _, _, _)
sign_loop(cp, xpub, sigs, i, sig_index) ==
    IF i > Len(cp.inputs)
    THEN [cp |-> cp,
          result |-> IF sig_index # Len(sigs) THEN "ExcessSignatures" ELSE "Ok"]
    ELSE LET input == cp.inputs[i]
             pubkey == derive_pub(xpub, input.sigset_index)
         IN IF ~contains_key(input.sigs, pubkey)
            THEN sign_loop(cp, xpub, sigs, i + 1, sig_index)
            ELSE IF sigs_done(input.sigs)
            THEN sign_loop(cp, xpub, sigs, i + 1, sig_index + 1)
            ELSE IF sig_index > Len(sigs)
            THEN [cp |-> cp, result |-> "NotEnoughSignatures"]
            ELSE IF sig_index >= Len(sigs)
            THEN [cp |-> cp, result |-> "Panic"]
            ELSE LET sig == sigs[sig_index + 1]
                     r == sigs_sign_result(input.sigs, pubkey, sig)
                     signed == sigs_sign(input.sigs, pubkey)
                     cp2 == [cp EXCEPT
                               !.inputs[i].sigs = signed,
                               !.signed_inputs =
                                   IF sigs_done(signed) THEN @ + 1 ELSE @]
                 IN IF r # "Ok"
                    THEN [cp |-> cp, result |-> r]
                    ELSE sign_loop(cp2, xpub, sigs, i + 1, sig_index + 1)

checkpoint_sign(cp, xpub, sigs) == sign_loop(cp, xpub, sigs, 1, 0)

\* a to_sign that leaves out the inputs that are already done
RECURSIVE to_sign_from_skips_done(_, _, _)
to_sign_from_skips_done(cp, xpub, i) ==
    IF i > Len(cp.inputs) THEN <<>>
    ELSE LET input == cp.inputs[i]
             rest == to_sign_from_skips_done(cp, xpub, i + 1)
         IN IF /\ needs_sig(input.sigs, derive_pub(xpub, input.sigset_index))
               /\ ~sigs_done(input.sigs)
            THEN <<[msg |-> input.sigs.message, sigset_index |-> input.sigset_index]>>
                 \o rest
            ELSE rest

\* SigningCheckpoint::to_sign: (sighash, sigset_index) of every input that
\* still needs this signer, in input order
RECURSIVE to_sign_from(_, _, _)
to_sign_from(cp, xpub, i) ==
    IF i > Len(cp.inputs) THEN <<>>
    ELSE LET input == cp.inputs[i]
             rest == to_sign_from(cp, xpub, i + 1)
         IN IF needs_sig(input.sigs, derive_pub(xpub, input.sigset_index))
            THEN <<[msg |-> input.sigs.message, sigset_index |-> input.sigset_index]>>
                 \o rest
            ELSE rest

to_sign(cp, xpub) == to_sign_from(cp, xpub, 1)

\* ------------------------------------------------------------- the queue
\* CheckpointQueue::get_deque_index: the deque slot (counted from 0) of a
\* logical index, or -1 for "Index out of bounds"
get_deque_index(q, idx, l) ==
    LET start == idx + 1 - Len(q)
    IN IF l > idx \/ l < start THEN -1 ELSE l - start

\* CheckpointQueue::get
get(q, idx, l) == q[get_deque_index(q, idx, l) + 1]

\* an all() that pairs the i-th logical index with the i-th deque slot
all_by_slot(q, idx) ==
    [panic |-> FALSE,
     out |-> [i \in 1..Len(q) |-> [index |-> idx - (i - 1), checkpoint |-> q[i]]]]

\* CheckpointQueue::all: for i = 0, 1, .. the pair of the logical index
\* self.index - i and the checkpoint in deque slot self.index - i; the
\* unwrap of a slot the deque does not have panics
all(q, idx) ==
    IF \E i \in 1..Len(q) : idx - (i - 1) + 1 \notin DOMAIN q
    THEN [panic |-> TRUE, out |-> <<>>]
    ELSE [panic |-> FALSE,
          out |-> [i \in 1..Len(q) |->
                      [index |-> idx - (i - 1), checkpoint |-> q[idx - (i - 1) + 1]]]]

\* CheckpointQueue::completed: the checkpoints from the oldest on, up to the
\* first one that is not Complete
RECURSIVE completed_from(_, _)
completed_from(q, i) ==
    IF i > Len(q) \/ q[i].status # "Complete" THEN <<>>
    ELSE <<q[i]>> \o completed_from(q, i + 1)

completed(q) == completed_from(q, 1)

\* CheckpointQueue::completed_txs
completed_txs(q) == [i \in 1..Len(completed(q)) |-> tx(completed(q)[i]).tx]

\* a signing() that looks at the newest checkpoint
has_signing_newest(q, idx) ==
    /\ Len(q) >= 2
    /\ get_deque_index(q, idx, idx) >= 0
    /\ get(q, idx, idx).status = "Signing"

\* a signing() whose length test is off by one
has_signing_min3(q, idx) ==
    /\ Len(q) >= 3
    /\ get_deque_index(q, idx, idx - 1) >= 0
    /\ get(q, idx, idx - 1).status = "Signing"

\* CheckpointQueue::signing / signing_mut: is the second-newest Signing
has_signing(q, idx) ==
    /\ Len(q) >= 2
    /\ get_deque_index(q, idx, idx - 1) >= 0
    /\ get(q, idx, idx - 1).status = "Signing"

signing(q, idx) == get(q, idx, idx - 1)

\* CheckpointQueue::building / building_mut
has_building(q, idx) == get_deque_index(q, idx, idx) >= 0

building(q, idx) == get(q, idx, idx)

\* the queue with the checkpoint of logical index l replaced
set_checkpoint(q, idx, l, cp) == [q EXCEPT ![get_deque_index(q, idx, l) + 1] = cp]

\* a maybe_push that increments the index on the empty queue too
maybe_push_always_increments(q, idx, sig_keys) ==
    LET target == idx + 1
        sigset == from_validator_ctx(target, sig_keys)
    IN IF possible_vp(sigset) = 0 \/ ~has_quorum(sigset)
       THEN [pushed |-> FALSE, queue |-> q, index |-> idx]
       ELSE [pushed |-> TRUE,
             queue |-> Append(q, [DefaultCheckpoint EXCEPT !.sigset = sigset]),
             index |-> target]

\* CheckpointQueue::maybe_push: the queue and index after the call, and
\* whether a checkpoint was pushed
maybe_push(q, idx, sig_keys) ==
    LET target == IF Len(q) # 0 THEN idx + 1 ELSE idx
        sigset == from_validator_ctx(target, sig_keys)
    IN IF possible_vp(sigset) = 0 \/ ~has_quorum(sigset)
       THEN [pushed |-> FALSE, queue |-> q, index |-> idx]
       ELSE [pushed |-> TRUE,
             queue |-> Append(q, [DefaultCheckpoint EXCEPT !.sigset = sigset]),
             index |-> target]

\* an interval test that never holds a step back
too_early_never(q, idx) == FALSE

\* maybe_step's interval test on the Building checkpoint
too_early(q, idx) == now - create_time(building(q, idx)) < CHECKPOINT_INTERVAL

\* a deposit test that counts the chained reserve input
has_pending_deposit_any(q, idx) == Len(building(q, idx).inputs) > 0

has_pending_deposit(q, idx) ==
    IF idx = 0 THEN Len(building(q, idx).inputs) > 0
    ELSE Len(building(q, idx).inputs) > 1

has_pending_withdrawal(q, idx) == Len(building(q, idx).outputs) > 0

\* CheckpointQueue::maybe_step: the queue and index after the call and its
\* result
maybe_step(q, idx, sig_keys, checks) ==
    LET same == [queue |-> q, index |-> idx, result |-> "Ok"]
        p == maybe_push(q, idx, sig_keys)
        adv == advance(get(p.queue, p.index, p.index - 1), checks)
        q1 == set_checkpoint(p.queue, p.index, p.index - 1, adv.cp)
        sg == signing(q1, p.index)
        reserve_value == sg.outputs[1].value
        outpoint == [txid |-> txid(tx(sg).tx), vout |-> 0]
        q2 == set_checkpoint(q1, p.index, p.index,
                  push_input(building(q1, p.index), outpoint, sg.sigset,
                             NULL_ADDRESS, reserve_value))
    IN IF has_signing(q, idx) THEN same
       ELSE IF Len(q) # 0 /\ too_early(q, idx)
       THEN same
       ELSE IF Len(q) # 0 /\ ~has_pending_deposit(q, idx)
                          /\ ~has_pending_withdrawal(q, idx)
       THEN same
       ELSE IF ~p.pushed THEN same
       ELSE IF p.index > 0
       THEN IF get_deque_index(p.queue, p.index, p.index - 1) < 0
            THEN [queue |-> p.queue, index |-> p.index,
                  result |-> "IndexOutOfBounds"]
            ELSE IF adv.panic
            THEN [queue |-> q, index |-> idx, result |-> "Panic"]
            ELSE [queue |-> q2, index |-> p.index, result |-> "Ok"]
       ELSE [queue |-> p.queue, index |-> p.index, result |-> "Ok"]

\* CheckpointQueue::sign: the queue after the call and its result
queue_sign(q, idx, xpub, sigs) ==
    IF ~has_signing(q, idx)
    THEN [queue |-> q, result |-> "NoSigningCheckpoint"]
    ELSE LET r == checkpoint_sign(signing(q, idx), xpub, sigs)
         IN IF r.result = "Panic" THEN [queue |-> q, result |-> "Panic"]
            ELSE IF r.result # "Ok"
            THEN [queue |-> set_checkpoint(q, idx, idx - 1, r.cp),
                  result |-> r.result]
            ELSE [queue |-> set_checkpoint(q, idx, idx - 1,
                               IF done(r.cp) THEN signing_advance(r.cp) ELSE r.cp),
                  result |-> "Ok"]

\* ---------------------------------------------------------------- actions
RECURSIVE Deposits(_, _)
Deposits(q, k) ==
    IF k = 0 THEN 0
    ELSE Deposits(q, k - 1)
         + Cardinality({i \in 1..Len(q[k].inputs) : q[k].inputs[i].dest # NULL_ADDRESS})

RECURSIVE Withdrawals(_, _)
Withdrawals(q, k) ==
    IF k = 0 THEN 0
    ELSE Withdrawals(q, k - 1)
         + Cardinality({i \in 1..Len(q[k].outputs) :
                           q[k].outputs[i].script_pubkey[1] = "user"})

\* the last call: its name and result, the signer and batch size of a sign,
\* and for maybe_step whether sig_keys gave a viable signatory set and
\* whether the call created a checkpoint
NoCall ==
    [op |-> "none", result |-> "Ok", xpub |-> "none", nsigs |-> 0,
     viable |-> FALSE, pushed |-> FALSE]

Call(op, result) == [NoCall EXCEPT !.op = op, !.result = result]

viable(sigset) == possible_vp(sigset) # 0 /\ has_quorum(sigset)

\* a run is followed until a call panics or a store or script call fails
Running == last.result \notin {"Panic", "CollaboratorError"}

Init ==
    /\ queue = <<>>
    /\ index = 0
    /\ now = 0
    /\ overflow_checks \in BOOLEAN
    /\ last = NoCall

\* the wall clock advances
Tick ==
    /\ Running
    /\ now + TimeStep <= MaxNow
    /\ now' = now + TimeStep
    /\ last' = Call("tick", "Ok")
    /\ UNCHANGED <<queue, index, overflow_checks>>

\* Pushes are followed while fewer than MaxFlows were made, and, from a
\* checkpoint that is one short of a cap, until the cap is exceeded by one.
MayPushInput ==
    \/ Deposits(queue, Len(queue)) + Withdrawals(queue, Len(queue)) < MaxFlows
    \/ Len(building(queue, index).inputs) \in {MAX_INPUTS - 1, MAX_INPUTS}

MayPushOutput ==
    \/ Deposits(queue, Len(queue)) + Withdrawals(queue, Len(queue)) < MaxFlows
    \/ Len(building(queue, index).outputs) \in {MAX_OUTPUTS - 2, MAX_OUTPUTS - 1}

\* a deposit: building_mut()?.push_input(prevout, &sigset, dest, amount)
PushInput(prevout, dest, amount) ==
    /\ Running
    /\ IF has_building(queue, index)
       THEN /\ MayPushInput
            /\ queue' = set_checkpoint(queue, index, index,
                            push_input(building(queue, index), prevout,
                                       building(queue, index).sigset, dest, amount))
            /\ last' = Call("push_input", "Ok")
       ELSE /\ queue' = queue
            /\ last' = Call("push_input", "IndexOutOfBounds")
    /\ UNCHANGED <<index, now, overflow_checks>>

\* a withdrawal: building_mut()?.outputs.push_back(txout)
PushOutput(value, dest) ==
    /\ Running
    /\ IF has_building(queue, index)
       THEN /\ MayPushOutput
            /\ queue' = set_checkpoint(queue, index, index,
                            push_output(building(queue, index),
                                [value |-> value, script_pubkey |-> <<"user", dest>>]))
            /\ last' = Call("push_output", "Ok")
       ELSE /\ queue' = queue
            /\ last' = Call("push_output", "IndexOutOfBounds")
    /\ UNCHANGED <<index, now, overflow_checks>>

\* the scheduler tick: maybe_step(sig_keys)
MaybeStep(sig_keys) ==
    /\ Running
    /\ LET r == maybe_step(queue, index, sig_keys, overflow_checks)
       IN /\ r.index <= MaxIndex
          /\ queue' = r.queue
          /\ index' = r.index
          /\ last' = [Call("maybe_step", r.result) EXCEPT
                         !.viable = viable(from_validator_ctx(0, sig_keys)),
                         !.pushed = Len(r.queue) > Len(queue)]
    /\ UNCHANGED <<now, overflow_checks>>

\* the signatures a signer can put in one slot of a batch: its signature
\* over the sighash of one of the first MaxSigs + 1 inputs of the Signing
\* checkpoint (a batch of MaxSigs signatures reaches no further), or a
\* corrupted one
SigChoices(xpub) ==
    {BadSig} \cup
    (IF Running /\ has_signing(queue, index)
     THEN LET sg == signing(queue, index)
          IN {Signature(derive_pub(xpub, sg.inputs[i].sigset_index),
                        sg.inputs[i].sigs.message) :
                  i \in {j \in 1..Len(sg.inputs) : j <= MaxSigs + 1}}
     ELSE {})

\* the input (counted from 0) a signature was made for, -1 for a corrupted one
InputOf(sig) == IF sig = BadSig THEN -1 ELSE sig.msg[2]

\* the batches a signer submits: up to MaxSigs signatures, the valid ones
\* in input order
Batches(xpub) ==
    UNION {{b \in [1..n -> SigChoices(xpub)] :
               \A i, j \in 1..n :
                   i < j /\ b[i] # BadSig /\ b[j] # BadSig
                       => InputOf(b[i]) < InputOf(b[j])} : n \in 0..MaxSigs}

\* a signer's call: sign(xpub, sigs)
Sign(xpub, sigs) ==
    /\ Running
    /\ LET r == queue_sign(queue, index, xpub, sigs)
       IN /\ queue' = r.queue
          /\ last' = [Call("sign", r.result) EXCEPT
                         !.xpub = xpub, !.nsigs = Len(sigs)]
    /\ UNCHANGED <<index, now, overflow_checks>>

Next ==
    \/ Tick
    \/ \E prevout \in DepositOutpoints, dest \in Dests, amount \in DepositAmounts :
           PushInput(prevout, dest, amount)
    \/ \E value \in WithdrawalValues, dest \in Dests : PushOutput(value, dest)
    \/ \E sig_keys \in ValidatorCtxs : MaybeStep(sig_keys)
    \/ \E xpub \in Signers : \E sigs \in Batches(xpub) : Sign(xpub, sigs)

Spec == Init /\ [][Next]_vars

\* ------------------------------------------------- runs with fair signers
\* one valid signature for every input of the Signing checkpoint whose
\* collector contains the signer's key, in input order: the batch that
\* sign enumerates
RECURSIVE full_batch_from(_, _, _)
full_batch_from(cp, xpub, i) ==
    IF i > Len(cp.inputs) THEN <<>>
    ELSE LET input == cp.inputs[i]
             pubkey == derive_pub(xpub, input.sigset_index)
             rest == full_batch_from(cp, xpub, i + 1)
         IN IF contains_key(input.sigs, pubkey)
            THEN <<Signature(pubkey, input.sigs.message)>> \o rest
            ELSE rest

FullBatch(xpub) == full_batch_from(signing(queue, index), xpub, 1)

\* a signer submits its full batch
HonestSign(xpub) ==
    /\ Running
    /\ has_signing(queue, index)
    /\ Len(FullBatch(xpub)) <= MaxSigs
    /\ Sign(xpub, FullBatch(xpub))

\* every signer that can submit its full batch eventually does
LiveSpec == Init /\ [][Next]_vars /\ \A xpub \in Signers : WF_vars(HonestSign(xpub))

\* ------------------------------------- runs in which a collaborator fails
\* maybe_step gets as far as advance()
reaches_advance(q, idx, sig_keys) ==
    /\ ~has_signing(q, idx)
    /\ Len(q) # 0
    /\ ~too_early(q, idx)
    /\ has_pending_deposit(q, idx) \/ has_pending_withdrawal(q, idx)
    /\ maybe_push(q, idx, sig_keys).pushed

\* maybe_step when, inside advance, `self.sigset.output_script(..)?` or
\* `self.outputs.push_front(..)?` returns Err: maybe_push has pushed the new
\* checkpoint and incremented the index, advance has set the status, and the
\* error is propagated by `?`
maybe_step_advance_err(q, idx, sig_keys) ==
    LET p == maybe_push(q, idx, sig_keys)
        c1 == [get(p.queue, p.index, p.index - 1) EXCEPT !.status = "Signing"]
    IN [queue |-> set_checkpoint(p.queue, p.index, p.index - 1, c1),
        index |-> p.index,
        result |-> "CollaboratorError"]

\* the scheduler tick during which the collaborator call in advance fails
MaybeStepAdvanceErr(sig_keys) ==
    /\ Running
    /\ reaches_advance(queue, index, sig_keys)
    /\ LET r == maybe_step_advance_err(queue, index, sig_keys)
       IN /\ r.index <= MaxIndex
          /\ queue' = r.queue
          /\ index' = r.index
          /\ last' = [Call("maybe_step", r.result) EXCEPT
                         !.viable = TRUE, !.pushed = TRUE]
    /\ UNCHANGED <<now, overflow_checks>>

NextFault ==
    \/ Next
    \/ \E sig_keys \in ValidatorCtxs : MaybeStepAdvanceErr(sig_keys)

SpecFault == Init /\ [][NextFault]_vars

\* ------------------------------------------------- runs that reach the caps
\* the amount of a deposit large enough to fund MAX_OUTPUTS withdrawals
LargeDeposit == 2000

\* the checkpoint after n deposits of one amount were pushed
PushInputs(cp, n, amount) ==
    [cp EXCEPT !.inputs = @ \o [i \in 1..n |->
        push_input(DefaultCheckpoint, [txid |-> "dep", vout |-> 0], cp.sigset,
                   "D", amount).inputs[1]]]

\* the checkpoint after n withdrawals were pushed
PushOutputs(cp, n) ==
    [cp EXCEPT !.outputs = @ \o [i \in 1..n |->
        push_output(DefaultCheckpoint,
                    [value |-> 5, script_pubkey |-> <<"user", "D">>]).outputs[1]]]

\* The queue after the genesis maybe_step and the pushes that bring the
\* genesis checkpoint to one short of MAX_INPUTS or of MAX_OUTPUTS.
InitCaps ==
    /\ index = 0
    /\ now = 0
    /\ overflow_checks \in BOOLEAN
    /\ last = NoCall
    /\ \E sig_keys \in {c \in ValidatorCtxs : viable(from_validator_ctx(0, c))} :
           LET genesis == maybe_push(<<>>, 0, sig_keys).queue[1]
           IN queue \in {<<PushInputs(genesis, MAX_INPUTS - 1, 20)>>,
                         <<PushOutputs(PushInputs(genesis, 1, LargeDeposit),
                                       MAX_OUTPUTS - 2)>>}

SpecCaps == InitCaps /\ [][Next]_vars

\* ------------------------------------------------------------- properties
Positions == 1..Len(queue)

AllDone(cp) == \A i \in 1..Len(cp.inputs) : sigs_done(cp.inputs[i].sigs)

\* C1: in every reachable state the newest checkpoint is Building, at most
\* the second-newest is Signing and every older checkpoint is Complete.
C1_QueueShape ==
    \A k \in Positions :
        /\ k = Len(queue) => queue[k].status = "Building"
        /\ k = Len(queue) - 1 => queue[k].status \in {"Signing", "Complete"}
        /\ k < Len(queue) - 1 => queue[k].status = "Complete"

C1_Witness ==
    /\ Len(queue) = 3
    /\ queue[1].status = "Complete"
    /\ queue[2].status = "Signing"
    /\ queue[3].status = "Building"

\* one step of a checkpoint's status
C2_StatusStep ==
    /\ Len(queue') >= Len(queue)
    /\ \A k \in Positions :
           \/ queue'[k].status = queue[k].status
           \/ queue[k].status = "Building" /\ queue'[k].status = "Signing"
           \/ queue[k].status = "Signing" /\ queue'[k].status = "Complete"

\* C2: no checkpoint is ever removed, and the status of every checkpoint
\* only stays as it is or moves Building -> Signing or Signing -> Complete.
C2_StatusMonotone == [][C2_StatusStep]_vars

C2_Witness ==
    /\ Len(queue) = 3
    /\ queue[1].status = "Complete"
    /\ queue[2].status = "Complete"
    /\ last.op = "sign"

SigningExists == \E k \in Positions : queue[k].status = "Signing"

\* the Signing checkpoint before a call and the same checkpoint after it
SigningBefore == queue[Len(queue) - 1]

SigningAfter == queue'[Len(queue) - 1]

Newest == queue[Len(queue)]

Elapsed == now - Newest.sigset.create_time

\* the inputs of the Building checkpoint that are user deposits: all but
\* the chained reserve input at position 0 of a non-genesis checkpoint
PendingDeposits ==
    {i \in 1..Len(Newest.inputs) : ~(Len(queue) > 1 /\ i = 1)}

PendingActivity == PendingDeposits # {} \/ Newest.outputs # <<>>

\* a failed sign as one step
C4_FailedSignStep ==
    last'.op = "sign" /\ last'.result \notin {"Ok", "Panic"} => queue' = queue

\* C4: a sign call that returns an error leaves the queue, and so the
\* Signing checkpoint, exactly as it was before the call.
C4_FailedSignChangesNothing == [][C4_FailedSignStep]_vars

\* completion by sign as one step
C5_SignStep ==
    /\ \A k \in 1..Len(queue') :
           queue'[k].status = "Complete" => AllDone(queue'[k])
    /\ last'.op = "sign" /\ SigningExists =>
           /\ ~AllDone(SigningBefore) /\ AllDone(SigningAfter)
                  => SigningAfter.status = "Complete"
           /\ SigningAfter.status = "Complete" => AllDone(SigningAfter)

\* C5: a Complete checkpoint has every input done, and a sign call
\* completes the Signing checkpoint exactly when the call leaves every
\* input done: in the call in which the last input becomes done, and never
\* while an input is not done.
C5_CompleteWhenDone == [][C5_SignStep]_vars

\* the idle tick on the empty queue as one step
C6_IdleTickStep ==
    last'.op = "maybe_step" /\ queue = <<>> /\ last'.viable => queue' = <<>>

\* C6: maybe_step on an empty queue with a viable signatory set leaves the
\* queue empty.
C6_IdleTickOnEmptyQueue == [][C6_IdleTickStep]_vars

\* the genesis push as one step
C6_GenesisStep ==
    last'.op = "maybe_step" /\ queue = <<>> =>
        /\ last'.result = "Ok"
        /\ index' = 0
        /\ IF last'.viable
           THEN /\ Len(queue') = 1
                /\ queue'[1].status = "Building"
                /\ queue'[1].inputs = <<>>
                /\ queue'[1].outputs = <<>>
                /\ queue'[1].sigset.index = 0
                /\ queue'[1].sigset.create_time = now
           ELSE queue' = <<>>

\* C6 as amended: maybe_step on an empty queue with a viable signatory set
\* pushes the genesis checkpoint: index 0, Building, no inputs, no outputs,
\* created now; with a signatory set that is not viable the queue stays empty.
C6_GenesisPush == [][C6_GenesisStep]_vars

C6_Witness ==
    /\ last.op = "maybe_step"
    /\ last.pushed
    /\ Len(queue) = 1
    /\ index = 0

\* a tick without pending activity as one step
C7_IdleStep ==
    last'.op = "maybe_step" /\ queue # <<>> /\ ~PendingActivity
        => queue' = queue /\ index' = index

\* C7: on a non-empty queue, maybe_step changes nothing when the Building
\* checkpoint has no withdrawal output and no deposit other than the chained
\* reserve input.
C7_NeverProducedIdle == [][C7_IdleStep]_vars

C7_Witness ==
    /\ last.op = "maybe_step"
    /\ last.viable
    /\ Len(queue) = 2
    /\ ~PendingActivity
    /\ ~SigningExists
    /\ Elapsed >= CHECKPOINT_INTERVAL

\* a premature tick as one step, and the gap between creation times
C8_EarlyStep ==
    last'.op = "maybe_step" /\ queue # <<>> /\ Elapsed < CHECKPOINT_INTERVAL
        => queue' = queue /\ index' = index

C8_Gap ==
    \A k \in Positions :
        k >= 2 => queue[k].sigset.create_time - queue[k - 1].sigset.create_time
                      >= CHECKPOINT_INTERVAL

\* C8: maybe_step called less than CHECKPOINT_INTERVAL after the Building
\* checkpoint was created changes nothing, and the creation times of
\* consecutive checkpoints are at least CHECKPOINT_INTERVAL apart.
C8_Interval == []C8_Gap /\ [][C8_EarlyStep]_vars

C8_Witness ==
    /\ last.op = "maybe_step"
    /\ last.viable
    /\ Len(queue) = 2
    /\ PendingActivity
    /\ ~SigningExists
    /\ Elapsed < CHECKPOINT_INTERVAL

\* a tick while a checkpoint is Signing as one step
C9_BlockedStep ==
    last'.op = "maybe_step" /\ SigningExists
        => queue' = queue /\ index' = index /\ last'.result = "Ok"

\* C9: while a Signing checkpoint exists, maybe_step returns success and
\* changes neither the queue nor the index.
C9_BlockedWhileSigning == [][C9_BlockedStep]_vars

C9_Witness ==
    /\ last.op = "maybe_step"
    /\ last.viable
    /\ SigningExists
    /\ PendingActivity
    /\ Elapsed >= CHECKPOINT_INTERVAL

\* the inputs of a checkpoint whose collector contains the signer's key
Containing(cp, xpub) ==
    {i \in 1..Len(cp.inputs) :
        contains_key(cp.inputs[i].sigs, derive_pub(xpub, cp.inputs[i].sigset_index))}

\* a short batch as one step
C10_ShortStep ==
    /\ last'.op = "sign"
    /\ SigningExists
    /\ last'.nsigs < Cardinality(Containing(SigningBefore, last'.xpub))
    => last'.result = "NotEnoughSignatures"

\* C10: a sign call with fewer signatures than the Signing checkpoint has
\* inputs whose collector contains the signer's key fails with
\* NotEnoughSignatures.
C10_ShortBatchNotEnough == [][C10_ShortStep]_vars

\* ------------------------------------------------------ reserve and fee
\* the values of a checkpoint's outputs other than the reserve output
UserOutputs(cp) == SumValues(cp.outputs, Len(cp.outputs)) - cp.outputs[1].value

\* the fee of a checkpoint that left Building
Fee(cp) == tx(cp).est_vsize * FEE_RATE

\* the Building checkpoint as advance sees it before it computes the reserve
WithReserveOut(cp) ==
    [cp EXCEPT !.outputs = <<[value |-> 0,
                              script_pubkey |-> output_script(cp.sigset, NULL_ADDRESS)]>>
                           \o @]

\* the inputs of a Building checkpoint do not cover its outputs and the fee
Underfunded(cp) ==
    SumAmounts(cp.inputs, Len(cp.inputs))
        < SumValues(cp.outputs, Len(cp.outputs)) + Fee(WithReserveOut(cp))

\* maybe_step is about to advance the Building checkpoint
StepAdvances ==
    /\ last'.op = "maybe_step"
    /\ last'.viable
    /\ queue # <<>>
    /\ ~SigningExists
    /\ Elapsed >= CHECKPOINT_INTERVAL
    /\ PendingActivity

C11_UnderfundedStep ==
    StepAdvances /\ Underfunded(Newest)
        => last'.result = "InsufficientFee" /\ queue' = queue /\ index' = index

C11_ReserveNotWrapped ==
    \A k \in Positions :
        queue[k].status # "Building"
            => queue[k].outputs[1].value
                   = SumAmounts(queue[k].inputs, Len(queue[k].inputs))
                         - UserOutputs(queue[k]) - Fee(queue[k])

\* C11: advancing a Building checkpoint whose inputs do not cover its user
\* outputs plus the fee fails with InsufficientFee and changes nothing, and
\* the reserve value of a checkpoint that left Building is never a
\* wrapped-around difference.
C11_InsufficientFee == []C11_ReserveNotWrapped /\ [][C11_UnderfundedStep]_vars

\* ------------------------------------------------- collectors and sigsets
\* the signatory set that owns the coin an input spends: the predecessor's
\* for the chained reserve input, the containing checkpoint's otherwise
OwnerSigset(k, i) ==
    IF k >= 2 /\ i = 1 THEN queue[k - 1].sigset ELSE queue[k].sigset

\* C12: every input's collector is initialised from the signatory set of the
\* checkpoint that contains the input, the chained reserve input included.
C12_CheckpointSigset ==
    \A k \in Positions : \A i \in 1..Len(queue[k].inputs) :
        queue[k].inputs[i].sigs.sigset = queue[k].sigset

\* C12: every input's collector is initialised from the signatory set that
\* push_input was given, and sigset_index is that set's index: the
\* containing checkpoint's set for a deposit, the predecessor's set (the
\* one that the spent reserve output pays to) for the chained reserve input.
C12_OwnerSigset ==
    \A k \in Positions : \A i \in 1..Len(queue[k].inputs) :
        /\ queue[k].inputs[i].sigs.sigset = OwnerSigset(k, i)
        /\ queue[k].inputs[i].sigset_index = OwnerSigset(k, i).index
        /\ queue[k].inputs[i].script_pubkey
               = output_script(OwnerSigset(k, i), queue[k].inputs[i].dest)

C12_Witness ==
    /\ Len(queue) >= 2
    /\ Len(queue[2].inputs) = 2
    /\ queue[2].inputs[1].sigs.sigset # queue[2].sigset
    /\ queue[2].inputs[2].sigs.sigset = queue[2].sigset

\* ------------------------------------------------ frozen after Building
\* what advance fixes of a checkpoint: the coins it spends, the message each
\* input is signed over, and its outputs
Frozen(cp) ==
    [inputs |-> [i \in 1..Len(cp.inputs) |->
                    [prevout |-> cp.inputs[i].prevout,
                     amount |-> cp.inputs[i].amount,
                     script_pubkey |-> cp.inputs[i].script_pubkey,
                     message |-> cp.inputs[i].sigs.message]],
     outputs |-> cp.outputs]

C13_FrozenStep ==
    \A k \in Positions :
        queue[k].status # "Building"
            => Len(queue') >= k /\ Frozen(queue'[k]) = Frozen(queue[k])

C13_PushStep ==
    last'.op \in {"push_input", "push_output"}
        => \A k \in Positions :
               queue'[k] # queue[k] => k = Len(queue) /\ queue[k].status = "Building"

\* C13: once a checkpoint has left Building, its inputs (prevouts and
\* amounts), its outputs (the reserve value included) and the sighash message
\* of each input never change, and a push through building_mut changes only a
\* checkpoint that is in Building status.
C13_FrozenAfterBuilding == [][C13_FrozenStep /\ C13_PushStep]_vars

C13_Witness ==
    /\ last.op \in {"push_input", "push_output"}
    /\ Len(queue) = 2
    /\ queue[1].status = "Signing"
    /\ queue[1].inputs # <<>>
    /\ queue[1].inputs[1].sigs.signed # {}
    /\ Len(queue[2].inputs) + Len(queue[2].outputs) = 2

\* ------------------------------------------------------- signed_inputs
DoneInputs(cp) == {i \in 1..Len(cp.inputs) : sigs_done(cp.inputs[i].sigs)}

\* C14: in every checkpoint signed_inputs is at most the number of inputs and
\* equals the number of inputs whose collector is done, so that each input
\* is counted at most once.
C14_SignedInputs ==
    \A k \in Positions :
        /\ queue[k].signed_inputs <= Len(queue[k].inputs)
        /\ queue[k].signed_inputs = Cardinality(DoneInputs(queue[k]))

C14_Witness ==
    /\ last.op = "sign"
    /\ Len(queue) >= 2
    /\ Len(queue[1].inputs) = 2
    /\ queue[1].signed_inputs = 1
    /\ queue[1].inputs[2].sigs.signed # {}

\* ------------------------------------------------------ value conservation
\* the transaction over which advance computes the sighashes of a checkpoint
\* that left Building: its inputs without witness, its outputs as stored
HashedTx(cp) == txid(tx(cp).tx)

\* C15: in every checkpoint that left Building the reserve output is output 0
\* and pays to the checkpoint's own signatory set, the input amounts equal
\* the reserve value plus the user outputs plus est_vsize * FEE_RATE, and
\* every input's sighash is computed over the transaction that carries this
\* same reserve value.
C15_ValueConserved ==
    \A k \in Positions :
        queue[k].status # "Building"
            => /\ queue[k].outputs # <<>>
               /\ queue[k].outputs[1].script_pubkey
                      = output_script(queue[k].sigset, NULL_ADDRESS)
               /\ SumAmounts(queue[k].inputs, Len(queue[k].inputs))
                      = queue[k].outputs[1].value + UserOutputs(queue[k])
                            + Fee(queue[k])
               /\ \A i \in 1..Len(queue[k].inputs) :
                      queue[k].inputs[i].sigs.message
                          = signature_hash(HashedTx(queue[k]), i - 1,
                                           queue[k].inputs[i].redeem_script,
                                           queue[k].inputs[i].amount)

\* ------------------------------------------------------------------- caps
\* advance would act on more than MAX_INPUTS inputs or, counting the reserve
\* output it inserts, more than MAX_OUTPUTS outputs
OverCap(cp) == Len(cp.inputs) > MAX_INPUTS \/ Len(cp.outputs) + 1 > MAX_OUTPUTS

C16_CapStep ==
    StepAdvances /\ OverCap(Newest)
        => /\ last'.result \notin {"Ok", "Panic"}
           /\ queue' = queue
           /\ index' = index

C16_WithinCaps ==
    \A k \in Positions :
        queue[k].status # "Building"
            => Len(queue[k].inputs) <= MAX_INPUTS /\ Len(queue[k].outputs) <= MAX_OUTPUTS

\* C16: a maybe_step that would advance a Building checkpoint with more than
\* MAX_INPUTS inputs or more than MAX_OUTPUTS outputs (the reserve output
\* counted) returns an error and changes nothing, and no Signing or Complete
\* checkpoint ever holds more than MAX_INPUTS inputs or MAX_OUTPUTS outputs.
C16_CapsRejected == []C16_WithinCaps /\ [][C16_CapStep]_vars

\* --------------------------------------------------- failure of maybe_step
C17_FailedStep ==
    last'.op = "maybe_step" /\ last'.result \notin {"Ok", "Panic"}
        => queue' = queue /\ index' = index

\* C17: a maybe_step that returns an error leaves the queue, the index and
\* every checkpoint as they were before the call.
C17_AtomicOnFailure == [][C17_FailedStep]_vars

\* ------------------------------------------------------- logical indexing
\* the logical indices a caller can probe
Probes == 0..(MaxIndex + 2)

\* the logical index a checkpoint was created with
CreatedAt(cp) == cp.sigset.index

\* C18: the newest checkpoint has logical index `index` and the oldest
\* index + 1 - len; get(l) is the checkpoint created with logical index l
\* for every l in that range and fails with "Index out of bounds" for every
\* other l and on the empty queue, the range being computed without
\* wrap-around; all() lists every checkpoint with its own logical index,
\* newest first.
C18_LogicalIndexing ==
    /\ index + 1 - Len(queue) >= 0
    /\ queue # <<>> => /\ CreatedAt(queue[Len(queue)]) = index
                       /\ CreatedAt(queue[1]) = index + 1 - Len(queue)
    /\ \A l \in Probes :
           IF queue # <<>> /\ index + 1 - Len(queue) <= l /\ l <= index
           THEN /\ get_deque_index(queue, index, l) >= 0
                /\ CreatedAt(get(queue, index, l)) = l
           ELSE get_deque_index(queue, index, l) = -1
    /\ ~all(queue, index).panic
    /\ Len(all(queue, index).out) = Len(queue)
    /\ \A i \in 1..Len(queue) :
           LET e == all(queue, index).out[i]
           IN /\ e.index = index - (i - 1)
              /\ CreatedAt(e.checkpoint) = e.index
              /\ e.checkpoint = queue[Len(queue) - (i - 1)]

C18_Witness ==
    /\ Len(queue) = 3
    /\ index = 2
    /\ queue[1].status = "Complete"
    /\ queue[2].status = "Signing"

\* ---------------------------------------------------------------- liveness
\* the checkpoint in deque slot k is Complete, listed by completed() and
\* completed_txs(), and no longer the one that blocks maybe_step
Completed(k) ==
    /\ Len(queue) >= k
    /\ queue[k].status = "Complete"
    /\ Len(completed(queue)) >= k
    /\ completed(queue)[k] = queue[k]
    /\ completed_txs(queue)[k] = tx(queue[k]).tx
    /\ ~(has_signing(queue, index) /\ signing(queue, index) = queue[k])

\* C19: with every signer eventually submitting its full batch of valid
\* signatures, a checkpoint that is Signing eventually is, and then stays,
\* Complete, returned by completed() and completed_txs(), and no longer
\* blocks maybe_step.
C19_SigningLeadsToComplete ==
    \A k \in 1..(MaxIndex + 1) :
        (Len(queue) >= k /\ queue[k].status = "Signing") ~> []Completed(k)

\* as long as no call has panicked, some signer's full batch adds a signature
\* to the Signing checkpoint or completes it
FullBatchProgress ==
    Running /\ has_signing(queue, index)
        => \E xpub \in Signers :
               /\ Len(FullBatch(xpub)) <= MaxSigs
               /\ queue_sign(queue, index, xpub, FullBatch(xpub)).result # "Panic"
               /\ queue_sign(queue, index, xpub, FullBatch(xpub)).queue # queue

\* ------------------------------------------------------ to_sign and sign
\* one valid signature per entry of to_sign, in the returned order
ToSignBatch(cp, xpub) ==
    [j \in 1..Len(to_sign(cp, xpub)) |->
        Signature(derive_pub(xpub, to_sign(cp, xpub)[j].sigset_index),
                  to_sign(cp, xpub)[j].msg)]

\* the signer has no signature in any collector of the checkpoint
NotYetSigned(cp, xpub) ==
    \A i \in 1..Len(cp.inputs) :
        derive_pub(xpub, cp.inputs[i].sigset_index) \notin cp.inputs[i].sigs.signed

\* sign accepts the batch and records the signer in exactly the inputs that
\* contain its key and were not done
AcceptedInPlace(cp, xpub, sigs) ==
    LET r == checkpoint_sign(cp, xpub, sigs)
    IN /\ r.result = "Ok"
       /\ \A i \in 1..Len(cp.inputs) :
              LET pubkey == derive_pub(xpub, cp.inputs[i].sigset_index)
              IN IF contains_key(cp.inputs[i].sigs, pubkey)
                    /\ ~sigs_done(cp.inputs[i].sigs)
                 THEN r.cp.inputs[i].sigs.signed
                          = cp.inputs[i].sigs.signed \cup {pubkey}
                 ELSE r.cp.inputs[i] = cp.inputs[i]

\* C20: whenever a checkpoint is Signing, also with some of its inputs
\* already done, a signer that has not signed yet and submits one valid
\* signature per entry of to_sign(xpub), in the returned order, has the
\* batch accepted by sign, each signature going to the input it was listed
\* for (the signature listed for an input that is already done is
\* consumed without being recorded).
C20_ToSignAccepted ==
    has_signing(queue, index)
        => \A xpub \in Signers :
               NotYetSigned(signing(queue, index), xpub)
                   => AcceptedInPlace(signing(queue, index), xpub,
                                      ToSignBatch(signing(queue, index), xpub))

C20_Witness ==
    /\ last.op = "sign"
    /\ last.result = "Ok"
    /\ last.xpub = "K2"
    /\ last.nsigs = 2
    /\ Len(queue) >= 2
    /\ queue[Len(queue) - 1].status = "Signing"
    /\ Len(queue[Len(queue) - 1].inputs) = 2
    /\ sigs_done(queue[Len(queue) - 1].inputs[1].sigs)
    /\ derive_pub("K2", queue[Len(queue) - 1].inputs[1].sigset_index)
           \notin queue[Len(queue) - 1].inputs[1].sigs.signed
    /\ derive_pub("K2", queue[Len(queue) - 1].inputs[2].sigset_index)
           \in queue[Len(queue) - 1].inputs[2].sigs.signed
====
